---- MODULE Spec2Model ----
(***************************************************************************)
(* The readiness gate of api_server.py and the RAG pipeline of app.py.     *)
(*                                                                         *)
(* One server process runs initialization threads (initialize_rag_system)  *)
(* and request handlers (check_rag_status, ask, status) over the globals   *)
(* rag_system_ready, rag_init_lock, _chroma_collection and _gemini_model.  *)
(* The Chroma collection is persistent: it survives the process.  Steps    *)
(* are the points at which Python may switch threads between reads and     *)
(* writes of shared state.                                                 *)
(***************************************************************************)
EXTENDS Integers, FiniteSets, Sequences, TLC

\* ---- bounds of the model -------------------------------------------------
MaxThreads == 3
MaxReqs == 1
MaxChunks == 2
MaxRestarts == 1

\* ---- program constants ---------------------------------------------------
N_RESULTS_RETRIEVAL == 10

InitializingMessage == "RAG system is initializing. Please try again in a moment."
Apology == "Sorry, I encountered an error while generating the response."

Threads == 1..MaxThreads
Reqs == (MaxThreads + 1)..(MaxThreads + MaxReqs)
Tasks == Threads \cup Reqs
ChunkIds == 0..(MaxChunks - 1)

\* what response.text can be when generation succeeds
GenTexts == {"", "generated"}

VARIABLES
    alive,              \* the server process is running
    failed,             \* initialization raised in this process (os._exit called)
    restarts,           \* number of process restarts so far
    rag_system_ready,   \* api_server.rag_system_ready
    rag_init_lock,      \* holder of api_server.rag_init_lock, 0 when free
    chroma_collection,  \* app._chroma_collection is not None
    gemini_model,       \* app._gemini_model is not None
    store,              \* persistent collection: id doc_<i> -> number of entries
    firstCount,         \* chunk count after the first population (0: never populated)
    populatedIn,        \* the process (value of restarts) that populated it, -1: none yet
    started,            \* number of initialization threads started in this process
    pc,                 \* position of every thread and request handler
    outcome,            \* per thread: what its call of initialize_rag_system did
    rq                  \* per request handler: the request, what it observed, the response

vars == <<alive, failed, restarts, rag_system_ready, rag_init_lock, chroma_collection,
          gemini_model, store, firstCount, populatedIn, started, pc, outcome, rq>>

\* ---- helpers ---------------------------------------------------------------
Min(a, b) == IF a < b THEN a ELSE b

RECURSIVE SumOver(_, _)
SumOver(f, S) == IF S = {} THEN 0
                 ELSE LET x == CHOOSE y \in S : TRUE IN f[x] + SumOver(f, S \ {x})

\* collection.count()
Count(s) == SumOver(s, DOMAIN s)

NoResponse == [code |-> 0, field |-> "", value |-> ""]

FreshRequest(path, body) ==
    [path |-> path, body |-> body, saw |-> "unread", invoked |-> FALSE,
     retrieval |-> "none", context |-> "", gen |-> "none", text |-> "", resp |-> NoResponse]

EmptyRequest == FreshRequest("", "")

\* the pcs at which a thread is inside the try block of initialize_rag_system
BodyPcs == {"call", "index", "ret"}

\* ---- process start -------------------------------------------------------
\* module-level state of a fresh process, with the startup thread started
ProcessStart ==
    /\ alive' = TRUE
    /\ failed' = FALSE
    /\ rag_system_ready' = FALSE
    /\ rag_init_lock' = 0
    /\ chroma_collection' = FALSE
    /\ gemini_model' = FALSE
    /\ started' = 1
    /\ pc' = [c \in Tasks |-> IF c = 1 THEN "acquire" ELSE IF c \in Threads THEN "unborn" ELSE "idle"]
    /\ outcome' = [t \in Threads |-> "none"]
    /\ rq' = [r \in Reqs |-> EmptyRequest]

Init ==
    /\ alive = TRUE
    /\ failed = FALSE
    /\ restarts = 0
    /\ rag_system_ready = FALSE
    /\ rag_init_lock = 0
    /\ chroma_collection = FALSE
    /\ gemini_model = FALSE
    /\ store = [i \in ChunkIds |-> 0]
    /\ firstCount = 0
    /\ populatedIn = -1
    /\ started = 1
    /\ pc = [c \in Tasks |-> IF c = 1 THEN "acquire" ELSE IF c \in Threads THEN "unborn" ELSE "idle"]
    /\ outcome = [t \in Threads |-> "none"]
    /\ rq = [r \in Reqs |-> EmptyRequest]

\* the process is stopped or has exited and is started again; the persistent
\* collection is all that survives
Restart ==
    /\ restarts < MaxRestarts
    /\ restarts' = restarts + 1
    /\ ProcessStart
    /\ UNCHANGED <<store, firstCount, populatedIn>>


\* ---- app.get_chroma_collection, called by a thread or a request handler ----
\* where the caller continues when get_chroma_collection returns
AfterGetCollection(c) == IF c \in Threads THEN "ret" ELSE "retrieve"

ShouldIndexAlways(count) == TRUE

\* if collection.count() == 0
ShouldIndex(count) == count = 0

\* collection.add(documents, ids) with ids doc_0 .. doc_<n-1>: one more entry
\* under every id (an id holding two entries is a duplicated chunk)
Add(s, n) == [i \in ChunkIds |-> IF i < n THEN s[i] + 1 ELSE s[i]]

\* the except branch of initialize_rag_system logs and falls through
StaysAliveOnFailure == TRUE

\* os._exit(1): whether the process is still running after the except branch
AliveAfterInitFailure == FALSE

ReadyNeverSet == FALSE

\* rag_system_ready = True
ReadyAfterInit == TRUE

\* the cache test, opening the collection and the count test
GetCollCall(c) ==
    /\ alive
    /\ pc[c] = "call"
    /\ IF chroma_collection
       THEN /\ pc' = [pc EXCEPT ![c] = AfterGetCollection(c)]
            /\ UNCHANGED chroma_collection
       ELSE IF ShouldIndex(Count(store))
            THEN /\ pc' = [pc EXCEPT ![c] = "index"]
                 /\ UNCHANGED chroma_collection
            ELSE /\ pc' = [pc EXCEPT ![c] = AfterGetCollection(c)]
                 /\ chroma_collection' = TRUE
    /\ UNCHANGED <<alive, failed, restarts, rag_system_ready, rag_init_lock, gemini_model,
                   store, firstCount, populatedIn, started, outcome, rq>>

\* load_and_chunk_document gives n chunks; they are added when there are any
GetCollIndex(c) ==
    /\ alive
    /\ pc[c] = "index"
    /\ \E n \in 0..MaxChunks :
          /\ store' = IF n > 0 THEN Add(store, n) ELSE store
          /\ firstCount' = IF firstCount = 0 THEN n ELSE firstCount
          /\ populatedIn' = IF firstCount = 0 /\ n > 0 THEN restarts ELSE populatedIn
    /\ chroma_collection' = TRUE
    /\ pc' = [pc EXCEPT ![c] = AfterGetCollection(c)]
    /\ UNCHANGED <<alive, failed, restarts, rag_system_ready, rag_init_lock, gemini_model,
                   started, outcome, rq>>

\* what the caller of a raising call sends back: Flask answers 500
ServerError == [code |-> 500, field |-> "exception", value |-> ""]

\* opening the store, counting, reading the corpus or adding raises: in a thread
\* the except branch of initialize_rag_system runs, in a request handler the
\* exception leaves ask_rag_question and the view
GetCollRaise(c) ==
    /\ alive
    /\ \/ pc[c] = "call" /\ ~chroma_collection
       \/ pc[c] = "index"
    /\ IF c \in Threads
       THEN /\ failed' = TRUE
            /\ alive' = AliveAfterInitFailure
            /\ outcome' = [outcome EXCEPT ![c] = "raised"]
            /\ IF AliveAfterInitFailure
               THEN /\ rag_init_lock' = 0
                    /\ pc' = [pc EXCEPT ![c] = "done"]
               ELSE /\ pc' = [pc EXCEPT ![c] = "exited"]
                    /\ UNCHANGED rag_init_lock
            /\ UNCHANGED rq
       ELSE /\ rq' = [rq EXCEPT ![c].resp = ServerError]
            /\ pc' = [pc EXCEPT ![c] = "done"]
            /\ UNCHANGED <<alive, failed, outcome, rag_init_lock>>
    /\ UNCHANGED <<restarts, rag_system_ready, chroma_collection, gemini_model,
                   store, firstCount, populatedIn, started>>

\* ---- api_server.initialize_rag_system -----------------------------------
LockFreeAlways(holder) == TRUE

\* rag_init_lock can be acquired
LockFree(holder) == holder = 0

\* rag_init_lock.locked()
Locked(holder) == holder # 0

\* with rag_init_lock:
InitAcquire(t) ==
    /\ alive
    /\ pc[t] = "acquire"
    /\ LockFree(rag_init_lock)
    /\ rag_init_lock' = t
    /\ pc' = [pc EXCEPT ![t] = "check"]
    /\ UNCHANGED <<alive, failed, restarts, rag_system_ready, chroma_collection, gemini_model,
                   store, firstCount, populatedIn, started, outcome, rq>>

\* the thread marks the system as initializing again and always runs the body
InitCheckReset(t) ==
    /\ alive
    /\ pc[t] = "check"
    /\ rag_system_ready' = FALSE
    /\ pc' = [pc EXCEPT ![t] = "call"]
    /\ UNCHANGED <<alive, failed, restarts, rag_init_lock, chroma_collection, gemini_model,
                   store, firstCount, populatedIn, started, outcome, rq>>

\* if not rag_system_ready: enter the try block, else leave the with block
InitCheck(t) ==
    /\ alive
    /\ pc[t] = "check"
    /\ IF ~rag_system_ready
       THEN /\ pc' = [pc EXCEPT ![t] = "call"]
            /\ UNCHANGED <<rag_init_lock, outcome>>
       ELSE /\ pc' = [pc EXCEPT ![t] = "done"]
            /\ outcome' = [outcome EXCEPT ![t] = "noop"]
            /\ rag_init_lock' = 0
    /\ UNCHANGED <<alive, failed, restarts, rag_system_ready, chroma_collection, gemini_model,
                   store, firstCount, populatedIn, started, rq>>

\* get_chroma_collection returned: set the flag, leave the with block
InitSuccess(t) ==
    /\ alive
    /\ pc[t] = "ret"
    /\ rag_system_ready' = ReadyAfterInit
    /\ rag_init_lock' = 0
    /\ pc' = [pc EXCEPT ![t] = "done"]
    /\ outcome' = [outcome EXCEPT ![t] = "initialized"]
    /\ UNCHANGED <<alive, failed, restarts, chroma_collection, gemini_model,
                   store, firstCount, populatedIn, started, rq>>

InitStep(t) ==
    \/ InitAcquire(t)
    \/ InitCheck(t)
    \/ GetCollCall(t)
    \/ GetCollIndex(t)
    \/ GetCollRaise(t)
    \/ InitSuccess(t)


\* ---- api_server.check_rag_status (before_request hook) --------------------
\* the requests a client can send: POST /ask with a JSON body holding a query,
\* with a body that is not JSON, with JSON lacking the query; GET /status
RequestKinds == {<<"ask", "ok">>, <<"ask", "notjson">>, <<"ask", "noquery">>, <<"status", "ok">>}

Unavailable == [code |-> 503, field |-> "message", value |-> InitializingMessage]

ReqArrive(r) ==
    /\ alive
    /\ pc[r] \in {"idle", "done"}
    /\ \E k \in RequestKinds : rq' = [rq EXCEPT ![r] = FreshRequest(k[1], k[2])]
    /\ pc' = [pc EXCEPT ![r] = "hook"]
    /\ UNCHANGED <<alive, failed, restarts, rag_system_ready, rag_init_lock, chroma_collection,
                   gemini_model, store, firstCount, populatedIn, started, outcome>>

\* if not rag_system_ready:
ReqHook(r) ==
    /\ alive
    /\ pc[r] = "hook"
    /\ rq' = [rq EXCEPT ![r].saw = IF rag_system_ready THEN "ready" ELSE "notready"]
    /\ pc' = [pc EXCEPT ![r] = IF rag_system_ready THEN "route" ELSE "locked"]
    /\ UNCHANGED <<alive, failed, restarts, rag_system_ready, rag_init_lock, chroma_collection,
                   gemini_model, store, firstCount, populatedIn, started, outcome>>

\* if not rag_init_lock.locked(): ... ; otherwise the 503 is returned at once
ReqLocked(r) ==
    /\ alive
    /\ pc[r] = "locked"
    /\ IF Locked(rag_init_lock)
       THEN /\ rq' = [rq EXCEPT ![r].resp = Unavailable]
            /\ pc' = [pc EXCEPT ![r] = "done"]
       ELSE /\ pc' = [pc EXCEPT ![r] = "spawn"]
            /\ UNCHANGED rq
    /\ UNCHANGED <<alive, failed, restarts, rag_system_ready, rag_init_lock, chroma_collection,
                   gemini_model, store, firstCount, populatedIn, started, outcome>>

\* threading.Thread(target=initialize_rag_system).start(), then the 503
ReqSpawn(r) ==
    /\ alive
    /\ pc[r] = "spawn"
    /\ started < MaxThreads
    /\ started' = started + 1
    /\ pc' = [pc EXCEPT ![r] = "done", ![started + 1] = "acquire"]
    /\ rq' = [rq EXCEPT ![r].resp = Unavailable]
    /\ UNCHANGED <<alive, failed, restarts, rag_system_ready, rag_init_lock, chroma_collection,
                   gemini_model, store, firstCount, populatedIn, outcome>>

\* ---- api_server.status ----------------------------------------------------
StatusBody(ready) ==
    [code |-> 200, field |-> "status", value |-> IF ready THEN "ready" ELSE "initializing"]

StatusView(r) ==
    /\ alive
    /\ pc[r] = "route"
    /\ rq[r].path = "status"
    /\ rq' = [rq EXCEPT ![r].resp = StatusBody(rag_system_ready)]
    /\ pc' = [pc EXCEPT ![r] = "done"]
    /\ UNCHANGED <<alive, failed, restarts, rag_system_ready, rag_init_lock, chroma_collection,
                   gemini_model, store, firstCount, populatedIn, started, outcome>>

\* ---- api_server.ask -------------------------------------------------------
BadRequest(body) ==
    [code |-> 400, field |-> "error",
     value |-> IF body = "notjson" THEN "Request must be JSON" ELSE "Missing 'query' parameter"]

\* the two validations, then the call of ask_rag_question, which begins with
\* get_chroma_collection()
AskView(r) ==
    /\ alive
    /\ pc[r] = "route"
    /\ rq[r].path = "ask"
    /\ IF rq[r].body # "ok"
       THEN /\ rq' = [rq EXCEPT ![r].resp = BadRequest(rq[r].body)]
            /\ pc' = [pc EXCEPT ![r] = "done"]
       ELSE /\ rq' = [rq EXCEPT ![r].invoked = TRUE]
            /\ pc' = [pc EXCEPT ![r] = "call"]
    /\ UNCHANGED <<alive, failed, restarts, rag_system_ready, rag_init_lock, chroma_collection,
                   gemini_model, store, firstCount, populatedIn, started, outcome>>

\* ---- app.ask_rag_question -------------------------------------------------
\* the number of documents collection.query gives for n_results
Retrieved(count, n_results) == Min(count, n_results)

\* the context slot of the prompt: the joined documents, or the placeholder
ContextOf(docs) ==
    IF docs > 0 THEN "documents" ELSE "No specific context was provided from the knowledge base."

\* get_gemini_model(), then retrieve_relevant_documents returns and the prompt
\* is assembled
AskRetrieve(r) ==
    /\ alive
    /\ pc[r] = "retrieve"
    /\ gemini_model' = TRUE
    /\ rq' = [rq EXCEPT ![r].retrieval = "returned",
                        ![r].context = ContextOf(Retrieved(Count(store), N_RESULTS_RETRIEVAL))]
    /\ pc' = [pc EXCEPT ![r] = "generate"]
    /\ UNCHANGED <<alive, failed, restarts, rag_system_ready, rag_init_lock, chroma_collection,
                   store, firstCount, populatedIn, started, outcome>>

\* get_gemini_model(), then collection.query (or the embedding call behind it)
\* raises: nothing catches it before Flask does
AskRetrieveRaise(r) ==
    /\ alive
    /\ pc[r] = "retrieve"
    /\ gemini_model' = TRUE
    /\ rq' = [rq EXCEPT ![r].retrieval = "raised", ![r].resp = ServerError]
    /\ pc' = [pc EXCEPT ![r] = "done"]
    /\ UNCHANGED <<alive, failed, restarts, rag_system_ready, rag_init_lock, chroma_collection,
                   store, firstCount, populatedIn, started, outcome>>

\* the except branch hands the exception text to the caller
AnswerOfException(gen, text) == IF gen = "raised" THEN "error" ELSE text

\* try: return response.text; except Exception: return the apology
AnswerOf(gen, text) == IF gen = "raised" THEN Apology ELSE text

AnswerBody(answer) == [code |-> 200, field |-> "answer", value |-> answer]

\* model.generate_content and response.text return a text or raise; ask sends
\* what ask_rag_question returns
AskGenerate(r) ==
    /\ alive
    /\ pc[r] = "generate"
    /\ \E g \in {"returned", "raised"} :
          \E t \in (IF g = "returned" THEN GenTexts ELSE {""}) :
             rq' = [rq EXCEPT ![r].gen = g, ![r].text = t,
                              ![r].resp = AnswerBody(AnswerOf(g, t))]
    /\ pc' = [pc EXCEPT ![r] = "done"]
    /\ UNCHANGED <<alive, failed, restarts, rag_system_ready, rag_init_lock, chroma_collection,
                   gemini_model, store, firstCount, populatedIn, started, outcome>>

ReqStep(r) ==
    \/ ReqArrive(r)
    \/ ReqHook(r)
    \/ ReqLocked(r)
    \/ ReqSpawn(r)
    \/ StatusView(r)
    \/ AskView(r)
    \/ GetCollCall(r)
    \/ GetCollIndex(r)
    \/ GetCollRaise(r)
    \/ AskRetrieve(r)
    \/ AskRetrieveRaise(r)
    \/ AskGenerate(r)

\* ---- specifications -------------------------------------------------------
Next ==
    \/ \E t \in Threads : InitStep(t)
    \/ \E r \in Reqs : ReqStep(r)
    \/ Restart

Spec == Init /\ [][Next]_vars

\* the scheduler runs some started thread while one can run; clients and
\* restarts are free
FairSpec == Spec /\ WF_vars(\E t \in Threads : InitStep(t))


\* ---- properties -----------------------------------------------------------
InBody == {t \in Threads : pc[t] \in BodyPcs}
Initialized == {t \in Threads : outcome[t] = "initialized"}
Started == {t \in Threads : pc[t] # "unborn"}
Answered(r) == pc[r] = "done" /\ rq[r].resp.code # 0

\* C1: under any number of initialization threads no two are inside the
\* initialization body at once, a thread inside it holds rag_init_lock, at most
\* one call runs the body to completion, and once every started call has
\* returned exactly one has run it to completion while every other one saw
\* rag_system_ready under the lock and did nothing.
MutualExclusionOfInit ==
    /\ Cardinality(InBody) <= 1
    /\ \A t \in Threads : pc[t] \in BodyPcs \cup {"check"} => rag_init_lock = t
    /\ Cardinality(Initialized) <= 1
    /\ (\A t \in Threads : pc[t] \in {"unborn", "done"}) =>
          /\ Cardinality(Initialized) = 1
          /\ \A t \in Started \ Initialized : outcome[t] = "noop"

\* two calls have returned: one initialized, the other found the flag set
TwoTriggersOneInit ==
    \E t1, t2 \in Threads :
       /\ t1 # t2
       /\ pc[t1] = "done" /\ outcome[t1] = "initialized"
       /\ pc[t2] = "done" /\ outcome[t2] = "noop"

\* C2: a well-formed POST /ask that found rag_system_ready false is answered 503
\* with the initializing message and ask_rag_question is not invoked; one that
\* found it true reaches ask_rag_question and is answered 200 with an answer;
\* ask_rag_question runs only when the flag is set and the collection is cached.
ReadinessGatingOfAsk ==
    \A r \in Reqs :
       /\ rq[r].invoked => rag_system_ready /\ chroma_collection
       /\ (Answered(r) /\ rq[r].path = "ask" /\ rq[r].body = "ok") =>
             /\ rq[r].saw = "notready" => rq[r].resp = Unavailable /\ ~rq[r].invoked
             /\ rq[r].saw = "ready" =>
                   /\ rq[r].invoked
                   /\ rq[r].resp.code = 200
                   /\ rq[r].resp.field = "answer"

\* C3: every answered GET /status carries a status field, "initializing" when the
\* system was not ready and "ready" when it was.
StatusAlwaysQueryable ==
    \A r \in Reqs :
       (Answered(r) /\ rq[r].path = "status") =>
          /\ rq[r].resp.code = 200
          /\ rq[r].resp.field = "status"
          /\ rq[r].saw = "notready" => rq[r].resp.value = "initializing"
          /\ rq[r].saw = "ready" => rq[r].resp.value = "ready"

\* C4: within one process, once rag_system_ready is true it is true in the next
\* state, whatever thread or request handler takes the step.
ReadinessMonotonic ==
    [][(rag_system_ready /\ restarts' = restarts) => rag_system_ready']_vars

\* ready, with a late initialization thread that found the flag set and a
\* request that was answered by the pipeline
ReadyAndUsed ==
    /\ rag_system_ready
    /\ \E t \in Threads : outcome[t] = "noop"
    /\ \E r \in Reqs : Answered(r) /\ rq[r].resp.field = "answer"

\* C5: when generation raised after a retrieval that returned, the caller gets
\* exactly the apology string in a 200 answer (nothing is raised); when
\* generation returned a text, the answer is that text.
GenerationFallback ==
    \A r \in Reqs :
       /\ rq[r].gen = "raised" =>
             /\ rq[r].retrieval = "returned"
             /\ rq[r].resp = [code |-> 200, field |-> "answer",
                              value |-> "Sorry, I encountered an error while generating the response."]
       /\ rq[r].gen = "returned" =>
             rq[r].resp = [code |-> 200, field |-> "answer", value |-> rq[r].text]

GenerationRaised ==
    \E r \in Reqs : Answered(r) /\ rq[r].retrieval = "returned" /\ rq[r].gen = "raised"

\* C6: whenever ask_rag_question was invoked and the request is answered, the
\* answer is a string in a 200 response, also when the retrieval failed.
QueryFailureRecovered ==
    \A r \in Reqs :
       (Answered(r) /\ rq[r].invoked) =>
          /\ rq[r].resp.code = 200
          /\ rq[r].resp.field = "answer"

\* C7: no id doc_<i> ever holds more than one entry, a non-empty collection has
\* the chunk count of its first population, and the collection changes only in
\* a step that found it empty, across processes too.
IdempotentIndexing ==
    /\ [](\A i \in ChunkIds : store[i] <= 1)
    /\ [](Count(store) > 0 => Count(store) = firstCount)
    /\ [][store' # store => Count(store) = 0]_vars

\* a later process has opened the collection an earlier process populated
ReopenedPopulated ==
    /\ populatedIn >= 0
    /\ populatedIn < restarts
    /\ chroma_collection
    /\ rag_system_ready
    /\ Count(store) > 0

\* C8: at no time are two initialization threads started and not yet finished.
OneAttemptInFlight ==
    alive => Cardinality({t \in Threads : pc[t] \notin {"unborn", "done"}}) <= 1

\* C9: once get_chroma_collection has raised inside initialize_rag_system the
\* process is gone: the flag is false and stays false, no thread is or gets
\* inside the initialization body, no request holds an answer, and nothing of
\* the process moves again.
FailedIsTerminal ==
    /\ [](failed =>
            /\ ~alive
            /\ ~rag_system_ready
            /\ InBody = {}
            /\ \A r \in Reqs : rq[r].resp.field # "answer")
    /\ [][(failed /\ failed') =>
            UNCHANGED <<rag_system_ready, rag_init_lock, pc, outcome, rq, store>>]_vars

\* the process exited while another thread was waiting for rag_init_lock
FailedWithWaiter ==
    /\ failed
    /\ \E t \in Threads : pc[t] = "exited"
    /\ \E t \in Threads : pc[t] = "acquire"

\* C10: a request handler is never the holder of rag_init_lock, a handler that
\* found the system not ready and the lock free starts a thread on its next
\* step, and a running process that is not ready eventually is ready or failed.
InitializationProgress ==
    /\ [](rag_init_lock \in Threads \cup {0})
    /\ [][\A r \in Reqs :
            (pc[r] = "spawn" /\ pc'[r] # "spawn" /\ restarts' = restarts) =>
               /\ started' = started + 1
               /\ pc'[started'] = "acquire"]_vars
    /\ (alive /\ ~rag_system_ready) ~> (rag_system_ready \/ failed)

\* a thread started by check_rag_status ran the initialization
RequestTriggeredInit ==
    \E t \in Threads : t > 1 /\ outcome[t] = "initialized" /\ rag_system_ready

====
